---- MODULE Spec2Model ----
(***************************************************************************)
(* A model of the gear-detector backend: the scraper aggregator            *)
(* (services/aggregator.py, scrapers/base_scraper.py), the text search     *)
(* endpoint with its database cache and the photo search endpoint with     *)
(* its Redis + database cache (api/routes/search.py,                       *)
(* services/cache_manager.py, database/connection.py).                     *)
(*                                                                         *)
(* The service runs on one asyncio event loop: the code between two        *)
(* awaits is one atomic step, and a coroutine that never awaits holds the  *)
(* loop until it returns.                                                  *)
(***************************************************************************)
EXTENDS Integers, Sequences, FiniteSets, TLC

(***************************************************************************)
(* Bounds of the model.                                                    *)
(***************************************************************************)
MaxScrapers == 2
MaxReqs == 2
MaxWarnings == 2
MaxCalls == 12
MaxStr == 2

(***************************************************************************)
(* Program constants.                                                      *)
(***************************************************************************)
\* BaseScraper.__init__: self.timeout = 30 (seconds)
timeout == 30
\* search_gear: expires_at = datetime.utcnow() + timedelta(days=90)
cache_days == 90
\* set_photo_result(..., ttl_days: int = 90)
ttl_days == 90
\* search_gear_by_photo: timedelta(days=90) and ttl_days=90
photo_cache_days == 90
\* photo_rate_limiter = PhotoSearchRateLimiter(max_requests=10, window_seconds=60)
max_requests == 10
window_seconds == 60

VARIABLES
    \* ---- one DataAggregator.aggregate call --------------------------------
    scrapers,            \* self.scrapers: the registered scraper instances
    sync_search,         \* the scrapers whose search() never awaits (praw, googleapiclient)
    now,                 \* the event loop's clock, seconds since aggregate began
    agg_pc,              \* "idle" | "gathering" | "returned" | "raised"
    task,                \* task[s]: "idle" | "running" | "settled"
    outcome,             \* outcome[s]: what the task of search_with_timeout settled to
    search_did,          \* history: what search() itself did, and when
    successful_results,  \* aggregate's return value
    loop_blocked,        \* the event loop is held by a search() that never returns
    \* ---- the text search endpoint and its database ------------------------
    treq,                \* treq[r]: the state of request r of POST /search
    searches,            \* table searches: the committed Search rows
    gear_results,        \* table gear_results: the committed GearResult rows
    clock,               \* datetime.utcnow(), in days
    \* ---- the CacheManager singleton and the Redis server ------------------
    lifespan,            \* main.lifespan: "startup" | "serving"
    cache_manager,       \* [enabled, redis_client]
    redis,               \* redis[h]: the entry under key "photo:" + h
    warnings,            \* warning lines cache_manager.py has logged
    cm_call,             \* connect, or the last method called on the manager directly, and what it did
    \* ---- the photo search endpoint and its database -----------------------
    preq,                \* preq[r]: the state of request r of POST /search/photo
    photo_searches,      \* table photo_searches: the committed PhotoSearch rows
    \* ---- the PhotoSearchRateLimiter singleton -----------------------------
    requests,            \* self.requests: client IP -> list of admission timestamps
    unix_time,           \* time.time(), in seconds
    calls,               \* check_rate_limit calls made so far
    admissions,          \* history: every timestamp at which a client was admitted
    denials,             \* history: the instants at which a client was denied
    \* ---- one call of generate_search_hash ---------------------------------
    query,               \* the SearchRequest: [artist, song, year]
    search_hash          \* the value returned for it, None before the call

aggTaskVars == <<scrapers, sync_search, now, agg_pc, task, outcome, search_did,
                 successful_results>>

aggVars == <<aggTaskVars, loop_blocked>>

textVars == <<treq, searches, gear_results, clock>>

cacheVars == <<lifespan, cache_manager, redis, warnings, cm_call>>

photoVars == <<preq, photo_searches>>

rateVars == <<requests, unix_time, calls, admissions, denials>>

keyVars == <<query, search_hash>>

\* everything but the stepwise aggregation
serviceVars == <<textVars, cacheVars, photoVars, rateVars, keyVars>>

vars == <<aggVars, textVars, cacheVars, photoVars, rateVars, keyVars>>

ScraperIds == 1..MaxScrapers

\* BaseScraper.__init__: the class name without "Scraper", lower-cased;
\* the registered classes are distinct, so the name identifies the instance.
source_name(s) == s

(***************************************************************************)
(* ScraperResult, and the other values a gathered task can settle to.      *)
(* data is "{}" (the empty dict) or "payload"; confidence is in percent.   *)
(***************************************************************************)
ScraperResult(name, success, data, error, confidence) ==
    [tag |-> "ScraperResult", source_name |-> name, success |-> success,
     data |-> data, error |-> error, confidence |-> confidence]

\* a task that ended with an exception instead of a value
Raised(kind) ==
    [tag |-> kind, source_name |-> 0, success |-> FALSE,
     data |-> "{}", error |-> kind, confidence |-> 0]

Pending == Raised("pending")

\* What the concrete search() implementations return: a success with data,
\* a failure with empty data and a message, and (ArtistMetadataScraper) a
\* failure that still carries the collected metadata.
SearchReturnValues(s) ==
    { ScraperResult(source_name(s), TRUE, "payload", "None", 60),
      ScraperResult(source_name(s), FALSE, "{}", "message", 0),
      ScraperResult(source_name(s), FALSE, "payload", "None", 0) }

\* The exceptions a search() can end with: an Exception subclass, asyncio's
\* TimeoutError (an Exception subclass the guard tells apart) and
\* CancelledError, which derives from BaseException only.
ExceptionKinds == {"Exception", "TimeoutError", "CancelledError"}

\* a timeout branch that forgets the error text
TimeoutResultNoError(s) == ScraperResult(source_name(s), FALSE, "{}", "None", 0)

\* search_with_timeout, "except asyncio.TimeoutError" branch
TimeoutResult(s) == ScraperResult(source_name(s), FALSE, "{}", "Timeout", 0)

\* search_with_timeout, "except Exception as e" branch: error = str(e)
ErrorResult(s) == ScraperResult(source_name(s), FALSE, "{}", "message", 0)

\* a guard that catches asyncio.TimeoutError only
GuardRaisedTimeoutOnly(s, kind) ==
    IF kind = "TimeoutError" THEN TimeoutResult(s) ELSE Raised(kind)

\* search_with_timeout when the awaited search raised `kind`
GuardRaised(s, kind) ==
    IF kind = "TimeoutError" THEN TimeoutResult(s)
    ELSE IF kind = "Exception" THEN ErrorResult(s)
    ELSE Raised(kind)

\* the clock values the model visits: before, at and after the deadline
TimePoints == {0, timeout - 1, timeout, timeout + 1}

NoSearch == [kind |-> "none", at |-> 0, value |-> Pending]

\* DataAggregator() registers the configured scrapers; aggregate, up to
\* "await asyncio.gather(...)": one task per scraper, all started at the
\* same instant
AggregateStart ==
    /\ agg_pc = "idle"
    /\ ~loop_blocked
    /\ scrapers' \in SUBSET ScraperIds
    /\ sync_search' \in SUBSET scrapers'
    /\ agg_pc' = "gathering"
    /\ task' = [s \in ScraperIds |-> IF s \in scrapers' THEN "running" ELSE "idle"]
    /\ UNCHANGED <<now, outcome, search_did, successful_results, loop_blocked>>
    /\ UNCHANGED serviceVars

\* gather starts the tasks in order and each runs to its first await before
\* the loop waits for I/O or timers: a search() that never awaits has run to
\* its end before any other search resumes or any timer fires
NoSyncPending == \A s \in sync_search : task[s] # "running"

Settle(s, did, value) ==
    /\ task' = [task EXCEPT ![s] = "settled"]
    /\ outcome' = [outcome EXCEPT ![s] = value]
    /\ search_did' = [search_did EXCEPT ![s] = did]

\* an awaiting search() returns before the deadline: wait_for hands its
\* result through
SearchReturns(s) ==
    /\ agg_pc = "gathering" /\ ~loop_blocked /\ NoSyncPending
    /\ task[s] = "running" /\ s \notin sync_search
    /\ now < timeout
    /\ \E res \in SearchReturnValues(s) :
          Settle(s, [kind |-> "returned", at |-> now, value |-> res], res)
    /\ UNCHANGED <<scrapers, sync_search, now, agg_pc, successful_results, loop_blocked>>
    /\ UNCHANGED serviceVars

\* an awaiting search() raises before the deadline
SearchRaises(s) ==
    /\ agg_pc = "gathering" /\ ~loop_blocked /\ NoSyncPending
    /\ task[s] = "running" /\ s \notin sync_search
    /\ now < timeout
    /\ \E kind \in ExceptionKinds :
          Settle(s, [kind |-> "raised", at |-> now, value |-> Raised(kind)],
                 GuardRaised(s, kind))
    /\ UNCHANGED <<scrapers, sync_search, now, agg_pc, successful_results, loop_blocked>>
    /\ UNCHANGED serviceVars

\* the deadline timer of wait_for fires while search() is suspended at an
\* await: the search is cancelled and wait_for raises TimeoutError
Timeout(s) ==
    /\ agg_pc = "gathering" /\ ~loop_blocked /\ NoSyncPending
    /\ task[s] = "running" /\ s \notin sync_search
    /\ now >= timeout
    /\ Settle(s, [kind |-> "timeout", at |-> now, value |-> Pending], TimeoutResult(s))
    /\ UNCHANGED <<scrapers, sync_search, now, agg_pc, successful_results, loop_blocked>>
    /\ UNCHANGED serviceVars

\* a search() without a suspension point runs to its end in one step of the
\* loop, however long it takes: no timer can fire before it returns
SyncSearchReturns(s) ==
    /\ agg_pc = "gathering" /\ ~loop_blocked
    /\ task[s] = "running" /\ s \in sync_search
    /\ \E t \in {u \in TimePoints : u >= now}, res \in SearchReturnValues(s) :
          /\ now' = t
          /\ Settle(s, [kind |-> "returned", at |-> t, value |-> res], res)
    /\ UNCHANGED <<scrapers, sync_search, agg_pc, successful_results, loop_blocked>>
    /\ UNCHANGED serviceVars

SyncSearchRaises(s) ==
    /\ agg_pc = "gathering" /\ ~loop_blocked
    /\ task[s] = "running" /\ s \in sync_search
    /\ \E t \in {u \in TimePoints : u >= now}, kind \in ExceptionKinds :
          /\ now' = t
          /\ Settle(s, [kind |-> "raised", at |-> t, value |-> Raised(kind)],
                    GuardRaised(s, kind))
    /\ UNCHANGED <<scrapers, sync_search, agg_pc, successful_results, loop_blocked>>
    /\ UNCHANGED serviceVars

\* a search() without a suspension point that never returns
SyncSearchHangs(s) ==
    /\ agg_pc = "gathering" /\ ~loop_blocked
    /\ task[s] = "running" /\ s \in sync_search
    /\ loop_blocked' = TRUE
    /\ UNCHANGED <<scrapers, sync_search, now, agg_pc, task, outcome, search_did,
                   successful_results>>
    /\ UNCHANGED serviceVars

\* time passes while the loop is idle
Tick ==
    /\ ~loop_blocked /\ NoSyncPending
    /\ agg_pc = "gathering"
    /\ \E t \in TimePoints : t > now /\ now' = t
    /\ UNCHANGED <<scrapers, sync_search, agg_pc, task, outcome, search_did,
                   successful_results, loop_blocked>>
    /\ UNCHANGED serviceVars

(***************************************************************************)
(* aggregate, after the gather: the filter loop.                           *)
(***************************************************************************)
IsScraperResult(result) == result.tag = "ScraperResult"

\* a filter that forgets "and result.success"
KeptAnyResult(result) == IsScraperResult(result)

\* isinstance(result, ScraperResult) and result.success
Kept(result) == IsScraperResult(result) /\ result.success

RECURSIVE FilterSuccessful(_, _)
FilterSuccessful(order, results) ==
    IF order = <<>> THEN <<>>
    ELSE LET rest == FilterSuccessful(Tail(order), results)
         IN  IF Kept(results[Head(order)])
             THEN <<results[Head(order)]>> \o rest
             ELSE rest

RECURSIVE ListOf(_)
\* self.scrapers as a list: the registered scrapers in registration order
ListOf(S) ==
    IF S = {} THEN <<>>
    ELSE LET m == CHOOSE x \in S : \A y \in S : x <= y
         IN  <<m>> \o ListOf(S \ {m})

\* gather(*tasks, return_exceptions=True): with the flag an exception of a
\* task is a value of the result list; without it the first one propagates
return_exceptions == TRUE

GatherRaises(registered, results) ==
    /\ ~return_exceptions
    /\ \E s \in registered : ~IsScraperResult(results[s])

GatherDone ==
    /\ agg_pc = "gathering" /\ ~loop_blocked
    /\ \A s \in scrapers : task[s] = "settled"
    /\ IF GatherRaises(scrapers, outcome)
       THEN /\ agg_pc' = "raised"
            /\ UNCHANGED successful_results
       ELSE /\ agg_pc' = "returned"
            /\ successful_results' = FilterSuccessful(ListOf(scrapers), outcome)
    /\ UNCHANGED <<scrapers, sync_search, now, task, outcome, search_did, loop_blocked>>
    /\ UNCHANGED serviceVars

AggNext ==
    \/ AggregateStart
    \/ \E s \in ScraperIds : SearchReturns(s)
    \/ \E s \in ScraperIds : SearchRaises(s)
    \/ \E s \in ScraperIds : Timeout(s)
    \/ \E s \in ScraperIds : SyncSearchReturns(s)
    \/ \E s \in ScraperIds : SyncSearchRaises(s)
    \/ \E s \in ScraperIds : SyncSearchHangs(s)
    \/ Tick
    \/ GatherDone


(***************************************************************************)
(* POST /search: search_gear, with the database as its cache.              *)
(* A request moves from one await to the next; the steps of different      *)
(* requests interleave.  The aggregation of one request shares nothing     *)
(* with anything else (search_gear builds its own DataAggregator), so here *)
(* it is one step over the outcomes its tasks settle to.                   *)
(***************************************************************************)
Reqs == 1..MaxReqs

\* the values of generate_search_hash the requests carry
Hashes == {"h1", "h2"}

\* the instants the model visits: an entry written at 0 is seen before, at
\* and after its expiry
DayPoints == {0, cache_days - 1, cache_days, cache_days + 1}

\* the dict synthesize_gear_data returns: kind "answer" (parsed from the
\* model's reply) or "degraded" (the except branch: empty lists, confidence 0)
Gear(r, kind) == [by |-> r, kind |-> kind]

NoGear == Gear(0, "none")

SearchResponse(id, gear) == [status |-> 200, search_id |-> id, result |-> gear]

\* HTTPException(status_code=500) raised by the handler's except clause
ServerError == [status |-> 500, search_id |-> 0, result |-> NoGear]

NoResponse == [status |-> 0, search_id |-> 0, result |-> NoGear]

\* the handler's locals while it runs: the filtered scraper results, what is
\* known of the searches behind them, the number of sources handed to the
\* synthesis (-1 before the call) and the synthesized dict
NoLocals ==
    [scraper_results |-> <<>>, searches_were |-> "none", synth_sources |-> -1,
     gear_data |-> NoGear]

IdleRequest ==
    [pc |-> "idle", search_hash |-> "none", locals |-> NoLocals,
     response |-> NoResponse, events |-> {}]

\* the ways one search() under the guard can end
SearchBehaviours(s) ==
    {[kind |-> "returned", value |-> v] : v \in SearchReturnValues(s)}
        \cup {[kind |-> "raised", value |-> Raised(k)] : k \in ExceptionKinds}
        \cup {[kind |-> "timeout", value |-> Pending]}

\* what search_with_timeout's task settles to for each of them
GuardOutcome(s, did) ==
    IF did.kind = "returned" THEN did.value
    ELSE IF did.kind = "raised" THEN GuardRaised(s, did.value.tag)
    ELSE TimeoutResult(s)

\* search_gear up to the first query: the hash of the request is computed
Receive(r) ==
    /\ ~loop_blocked
    /\ treq[r].pc = "idle"
    /\ \E h \in Hashes :
          treq' = [treq EXCEPT ![r].pc = "lookup", ![r].search_hash = h]
    /\ UNCHANGED <<searches, gear_results, clock, aggVars, cacheVars, photoVars, rateVars, keyVars>>

\* select(Search).where(search_hash == ..., expires_at > utcnow())
LiveSearches(h) ==
    {row \in searches : row.search_hash = h /\ row.expires_at > clock}

\* select(DBGearResult).where(search_id == existing_search.id)
GearOf(id) == {g \in gear_results : g.search_id = id}

\* the cache check finds a live Search row with its GearResult
LookupHit(r) ==
    /\ ~loop_blocked
    /\ treq[r].pc = "lookup"
    /\ \E row \in LiveSearches(treq[r].search_hash) :
          \E g \in GearOf(row.id) :
              treq' = [treq EXCEPT ![r].pc = "done",
                                   ![r].response = SearchResponse(row.id, g.gear),
                                   ![r].events = @ \cup {"cache_hit"}]
    /\ UNCHANGED <<searches, gear_results, clock, aggVars, cacheVars, photoVars, rateVars, keyVars>>

\* a lookup that also gives way to a request already computing the key
NotCachedNorInFlight(r) ==
    /\ \A row \in LiveSearches(treq[r].search_hash) : GearOf(row.id) = {}
    /\ \A q \in Reqs \ {r} :
          treq[q].search_hash = treq[r].search_hash
              => treq[q].pc \notin {"aggregate", "synthesize", "store"}

\* neither "if existing_search" nor "if gear_result" holds: the lookup reads
\* the committed rows and nothing else
NotCached(r) ==
    \A row \in LiveSearches(treq[r].search_hash) : GearOf(row.id) = {}

\* no live row, or a row without gear: "Cache miss - starting new search"
LookupMiss(r) ==
    /\ ~loop_blocked
    /\ treq[r].pc = "lookup"
    /\ NotCached(r)
    /\ treq' = [treq EXCEPT ![r].pc = "aggregate",
                            ![r].events = @ \cup {"cache_miss"}]
    /\ UNCHANGED <<searches, gear_results, clock, aggVars, cacheVars, photoVars, rateVars, keyVars>>

\* the database is unreachable: session.execute raises, get_db_session rolls
\* back and re-raises, the handler's "except Exception" answers 500
LookupFails(r) ==
    /\ ~loop_blocked
    /\ treq[r].pc = "lookup"
    /\ treq' = [treq EXCEPT ![r].pc = "done",
                            ![r].response = ServerError,
                            ![r].events = @ \cup {"lookup_failed"}]
    /\ UNCHANGED <<searches, gear_results, clock, aggVars, cacheVars, photoVars, rateVars, keyVars>>

\* what aggregate() can come to, over every set of registered scrapers and
\* every behaviour of each search(): whether gather raised, the filtered list,
\* and what the searches behind it were
AggregateRuns ==
    UNION { { LET results == [s \in registered |-> GuardOutcome(s, did[s])]
              IN  [raised |-> GatherRaises(registered, results),
                   successful_results |->
                       FilterSuccessful(ListOf(registered), results),
                   searches_were |->
                       IF registered = {} THEN "none_registered"
                       ELSE IF \E s \in registered :
                                  /\ did[s].kind = "returned"
                                  /\ did[s].value.success
                            THEN "some_succeeded"
                            ELSE "all_failed"]
              : did \in { d \in [registered ->
                                   UNION {SearchBehaviours(s) : s \in ScraperIds}] :
                             \A s \in registered : d[s] \in SearchBehaviours(s) } }
            : registered \in SUBSET ScraperIds }

\* aggregator.aggregate(...): every registered scraper's task settles, the
\* filter keeps the successes
Aggregate(r) ==
    /\ ~loop_blocked
    /\ treq[r].pc = "aggregate"
    /\ \E run \in AggregateRuns :
          IF run.raised
          THEN treq' = [treq EXCEPT ![r].pc = "done",
                                    ![r].response = ServerError,
                                    ![r].events = @ \cup {"aggregate_raised"}]
          ELSE treq' = [treq EXCEPT
                 ![r].pc = "synthesize",
                 ![r].locals.scraper_results = run.successful_results,
                 ![r].locals.searches_were = run.searches_were,
                 ![r].events = @ \cup {"aggregated"}]
    /\ UNCHANGED <<searches, gear_results, clock, aggVars, cacheVars, photoVars, rateVars, keyVars>>

\* a search() that never awaits and never returns holds the event loop
AggregateBlocks(r) ==
    /\ ~loop_blocked
    /\ treq[r].pc = "aggregate"
    /\ loop_blocked' = TRUE
    /\ UNCHANGED <<textVars, aggTaskVars, cacheVars, photoVars, rateVars, keyVars>>

\* claude_service.synthesize_gear_data(...) returns the parsed answer
SynthesizeAnswers(r) ==
    /\ ~loop_blocked
    /\ treq[r].pc = "synthesize"
    /\ treq' = [treq EXCEPT ![r].pc = "store",
                            ![r].locals.synth_sources =
                                Len(treq[r].locals.scraper_results),
                            ![r].locals.gear_data = Gear(r, "answer"),
                            ![r].events = @ \cup {"synthesized"}]
    /\ UNCHANGED <<searches, gear_results, clock, aggVars, cacheVars, photoVars, rateVars, keyVars>>

\* the API call fails: the except branch returns the zero-confidence dict
SynthesizeDegrades(r) ==
    /\ ~loop_blocked
    /\ treq[r].pc = "synthesize"
    /\ treq' = [treq EXCEPT ![r].pc = "store",
                            ![r].locals.synth_sources =
                                Len(treq[r].locals.scraper_results),
                            ![r].locals.gear_data = Gear(r, "degraded"),
                            ![r].events = @ \cup {"synthesized"}]
    /\ UNCHANGED <<searches, gear_results, clock, aggVars, cacheVars, photoVars, rateVars, keyVars>>

\* no API key: synthesize_gear_data raises ValueError, the handler answers 500
SynthesizeRaises(r) ==
    /\ ~loop_blocked
    /\ treq[r].pc = "synthesize"
    /\ treq' = [treq EXCEPT ![r].pc = "done",
                            ![r].locals = NoLocals,
                            ![r].response = ServerError,
                            ![r].events = @ \cup {"synthesized", "synthesis_raised"}]
    /\ UNCHANGED <<searches, gear_results, clock, aggVars, cacheVars, photoVars, rateVars, keyVars>>

\* searches.search_hash is unique: a second row with the hash, live or
\* expired, makes the commit raise IntegrityError
HashTaken(h) == \E row \in searches : row.search_hash = h

\* a handler that commits the Search row before it adds the GearResult row,
\* whose own commit may then fail
StoreCommitsRowByRow(r) ==
    /\ ~loop_blocked
    /\ treq[r].pc = "store"
    /\ ~HashTaken(treq[r].search_hash)
    /\ searches' = searches \cup
          {[id |-> r, search_hash |-> treq[r].search_hash,
            expires_at |-> clock + cache_days]}
    /\ \/ /\ gear_results' = gear_results \cup
                {[search_id |-> r, gear |-> treq[r].locals.gear_data]}
          /\ treq' = [treq EXCEPT ![r].pc = "done",
                                  ![r].locals = NoLocals,
                                  ![r].response =
                                      SearchResponse(r, treq[r].locals.gear_data),
                                  ![r].events = @ \cup {"stored"}]
       \/ /\ UNCHANGED gear_results
          /\ treq' = [treq EXCEPT ![r].pc = "done",
                                  ![r].locals = NoLocals,
                                  ![r].response = ServerError,
                                  ![r].events = @ \cup {"store_failed"}]
    /\ UNCHANGED <<clock, aggVars, cacheVars, photoVars, rateVars, keyVars>>

\* a handler that answers a degraded synthesis without storing it
StoreCommitsUnlessDegraded(r) ==
    /\ ~loop_blocked
    /\ treq[r].pc = "store"
    /\ ~HashTaken(treq[r].search_hash)
    /\ IF treq[r].locals.gear_data.kind = "degraded"
       THEN UNCHANGED <<searches, gear_results>>
       ELSE /\ searches' = searches \cup
                  {[id |-> r, search_hash |-> treq[r].search_hash,
                    expires_at |-> clock + cache_days]}
            /\ gear_results' = gear_results \cup
                  {[search_id |-> r, gear |-> treq[r].locals.gear_data]}
    /\ treq' = [treq EXCEPT ![r].pc = "done",
                            ![r].locals = NoLocals,
                            ![r].response =
                                SearchResponse(r, treq[r].locals.gear_data),
                            ![r].events = @ \cup {"stored"}]
    /\ UNCHANGED <<clock, aggVars, cacheVars, photoVars, rateVars, keyVars>>

\* "Store in database": both rows are added and committed in one session,
\* then the response is built
StoreCommits(r) ==
    /\ ~loop_blocked
    /\ treq[r].pc = "store"
    /\ ~HashTaken(treq[r].search_hash)
    /\ searches' = searches \cup
          {[id |-> r, search_hash |-> treq[r].search_hash,
            expires_at |-> clock + cache_days]}
    /\ gear_results' = gear_results \cup
          {[search_id |-> r, gear |-> treq[r].locals.gear_data]}
    /\ treq' = [treq EXCEPT ![r].pc = "done",
                            ![r].locals = NoLocals,
                            ![r].response =
                                SearchResponse(r, treq[r].locals.gear_data),
                            ![r].events = @ \cup {"stored"}]
    /\ UNCHANGED <<clock, aggVars, cacheVars, photoVars, rateVars, keyVars>>

\* the commit raises (database down, or the hash is taken): get_db_session
\* rolls back and re-raises, the handler's "except Exception" answers 500
StoreFails(r) ==
    /\ ~loop_blocked
    /\ treq[r].pc = "store"
    /\ treq' = [treq EXCEPT ![r].pc = "done",
                            ![r].locals = NoLocals,
                            ![r].response = ServerError,
                            ![r].events = @ \cup {"store_failed"}]
    /\ UNCHANGED <<searches, gear_results, clock, aggVars, cacheVars, photoVars, rateVars, keyVars>>

\* time passes
ClockTick ==
    /\ ~loop_blocked
    /\ \E t \in DayPoints : t > clock /\ clock' = t
    /\ UNCHANGED <<treq, searches, gear_results, aggVars, cacheVars, photoVars, rateVars, keyVars>>

TextNext ==
    \/ \E r \in Reqs : Receive(r)
    \/ \E r \in Reqs : LookupHit(r)
    \/ \E r \in Reqs : LookupMiss(r)
    \/ \E r \in Reqs : LookupFails(r)
    \/ \E r \in Reqs : Aggregate(r)
    \/ \E r \in Reqs : AggregateBlocks(r)
    \/ \E r \in Reqs : SynthesizeAnswers(r)
    \/ \E r \in Reqs : SynthesizeDegrades(r)
    \/ \E r \in Reqs : SynthesizeRaises(r)
    \/ \E r \in Reqs : StoreCommits(r)
    \/ \E r \in Reqs : StoreFails(r)
    \/ ClockTick

(***************************************************************************)
(* services/cache_manager.py: the CacheManager singleton over Redis.       *)
(***************************************************************************)
\* Python's None
None == [tag |-> "None"]

\* no key "photo:" + h in Redis
NoEntry == [value |-> None, expires_at |-> 0]

NoCall == [op |-> "none", returned |-> None, contacted |-> FALSE, warned |-> FALSE]

\* the dicts VisionService.identify_gear_from_image returns: parsed from
\* JSON, so json.dumps and json.loads lose nothing of them
GearDicts == {Gear(r, "answer") : r \in Reqs}

\* json.dumps(gear_data): a str
json_dumps(gear_data) == [tag |-> "str", json |-> gear_data]

\* json.loads(cached)
json_loads(cached) == cached.json

\* connect(): from_url and ping succeed
ConnectSucceeds ==
    /\ lifespan = "startup"
    /\ lifespan' = "serving"
    /\ cache_manager' = [enabled |-> TRUE, redis_client |-> "client"]
    /\ cm_call' = [op |-> "connect", returned |-> None, contacted |-> TRUE,
                   warned |-> FALSE]
    /\ UNCHANGED <<redis, warnings, photoVars, textVars, aggVars, rateVars, keyVars>>

\* connect(): from_url raises (redis_client stays None) or ping raises
\* (redis_client is assigned); one warning, enabled = False
ConnectFails ==
    /\ lifespan = "startup"
    /\ lifespan' = "serving"
    /\ \E client \in {"None", "client"} :
          cache_manager' = [enabled |-> FALSE, redis_client |-> client]
    /\ warnings' = warnings + 1
    /\ cm_call' = [op |-> "connect", returned |-> None, contacted |-> TRUE,
                   warned |-> TRUE]
    /\ UNCHANGED <<redis, photoVars, textVars, aggVars, rateVars, keyVars>>

\* a guard that forgets "not self.enabled"
UsableWithClient(cm) == cm.redis_client # "None"

\* the negation of "if not self.enabled or not self.redis_client: return"
Usable(cm) == cm.enabled /\ cm.redis_client # "None"

\* a server that never expires a key
RedisGetForever(h) == {redis[h].value}

\* GET photo:h as Redis answers it: the value until the key's expiry, nil
\* after it (either at the very instant of the expiry)
RedisGet(h) ==
    IF redis[h].value = None \/ clock > redis[h].expires_at THEN {None}
    ELSE IF clock < redis[h].expires_at THEN {redis[h].value}
    ELSE {redis[h].value, None}

\* what one call of get_photo_result(image_hash) can do
get_photo_result(h) ==
    IF ~Usable(cache_manager)
    THEN {[returned |-> None, contacted |-> FALSE, warned |-> FALSE]}
    ELSE {[returned |-> IF cached # None THEN json_loads(cached) ELSE None,
           contacted |-> TRUE, warned |-> FALSE] : cached \in RedisGet(h)}
         \cup {[returned |-> None, contacted |-> TRUE, warned |-> TRUE]}

\* what one call of set_photo_result(image_hash, gear_data, ttl_days) can do;
\* "entry" is what the key holds afterwards
set_photo_result(h, gear_data, days) ==
    IF ~Usable(cache_manager)
    THEN {[returned |-> FALSE, contacted |-> FALSE, warned |-> FALSE,
           entry |-> redis[h]]}
    ELSE {[returned |-> TRUE, contacted |-> TRUE, warned |-> FALSE,
           entry |-> [value |-> json_dumps(gear_data),
                      expires_at |-> clock + days]],
          [returned |-> FALSE, contacted |-> TRUE, warned |-> TRUE,
           entry |-> redis[h]]}

\* what one call of delete_photo_result(image_hash) can do
delete_photo_result(h) ==
    IF ~Usable(cache_manager)
    THEN {[returned |-> FALSE, contacted |-> FALSE, warned |-> FALSE,
           entry |-> redis[h]]}
    ELSE {[returned |-> (held # None), contacted |-> TRUE, warned |-> FALSE,
           entry |-> NoEntry] : held \in RedisGet(h)}
         \cup {[returned |-> FALSE, contacted |-> TRUE, warned |-> TRUE,
                entry |-> redis[h]]}

\* the call is made and its log line written
Called(op, did) ==
    /\ did.warned => warnings < MaxWarnings
    /\ warnings' = IF did.warned THEN warnings + 1 ELSE warnings
    /\ cm_call' = [op |-> op, returned |-> did.returned,
                   contacted |-> did.contacted, warned |-> did.warned]

GetPhotoResult(h) ==
    /\ lifespan = "serving"
    /\ \E did \in get_photo_result(h) : Called("get", did)
    /\ UNCHANGED <<lifespan, cache_manager, redis, photoVars, textVars, aggVars, rateVars, keyVars>>

SetPhotoResult(h, gear_data) ==
    /\ lifespan = "serving"
    /\ \E did \in set_photo_result(h, gear_data, ttl_days) :
          /\ Called("set", did)
          /\ redis' = [redis EXCEPT ![h] = did.entry]
    /\ UNCHANGED <<lifespan, cache_manager, photoVars, textVars, aggVars, rateVars, keyVars>>

DeletePhotoResult(h) ==
    /\ lifespan = "serving"
    /\ \E did \in delete_photo_result(h) :
          /\ Called("delete", did)
          /\ redis' = [redis EXCEPT ![h] = did.entry]
    /\ UNCHANGED <<lifespan, cache_manager, photoVars, textVars, aggVars, rateVars, keyVars>>

CacheNext ==
    \/ ConnectSucceeds
    \/ ConnectFails
    \/ \E h \in Hashes : GetPhotoResult(h)
    \/ \E h \in Hashes, gear_data \in GearDicts : SetPhotoResult(h, gear_data)
    \/ \E h \in Hashes : DeletePhotoResult(h)
    \/ ClockTick

(***************************************************************************)
(* POST /search/photo: search_gear_by_photo, with Redis in front of the    *)
(* photo_searches table.  The response's "context" text, which the handler *)
(* decorates with the processing time, is left out of the gear dict.       *)
(***************************************************************************)
IdlePhoto ==
    [pc |-> "idle", image_hash |-> "none", gear_data |-> NoGear,
     response |-> NoResponse, events |-> {}]

\* HTTPException(status_code=400): the "except ValueError" clause
BadRequest == [status |-> 400, search_id |-> 0, result |-> NoGear]

\* HTTPException(status_code=429), raised by check_rate_limit
TooManyRequests == [status |-> 429, search_id |-> 0, result |-> NoGear]

\* photo_rate_limiter.check_rate_limit(client_ip) returns True; the image is
\* decoded and hashed
PhotoReceive(r) ==
    /\ lifespan = "serving"
    /\ preq[r].pc = "idle"
    /\ \E h \in Hashes :
          preq' = [preq EXCEPT ![r].pc = "redis_lookup", ![r].image_hash = h,
                               ![r].events = @ \cup {"admitted"}]
    /\ UNCHANGED <<photo_searches, cacheVars, textVars, aggVars, rateVars, keyVars>>

\* a handler that logs the denial and serves the request all the same
PhotoDeniedYetServed(r) ==
    /\ lifespan = "serving"
    /\ preq[r].pc = "idle"
    /\ \E h \in Hashes :
          preq' = [preq EXCEPT ![r].pc = "redis_lookup", ![r].image_hash = h,
                               ![r].events = @ \cup {"denied"}]
    /\ UNCHANGED <<photo_searches, cacheVars, textVars, aggVars, rateVars, keyVars>>

\* check_rate_limit raises for this client, whose window is full of the
\* requests of others: the handler is left before its try block
PhotoDenied(r) ==
    /\ lifespan = "serving"
    /\ preq[r].pc = "idle"
    /\ preq' = [preq EXCEPT ![r].pc = "done",
                            ![r].response = TooManyRequests,
                            ![r].events = @ \cup {"denied"}]
    /\ UNCHANGED <<photo_searches, cacheVars, textVars, aggVars, rateVars, keyVars>>

\* "Check Redis cache first": a non-empty dict is returned as it is; None
\* sends the request on to the database.  The events tell a miss on an
\* expired key from a miss on none.
RedisLookup(r) ==
    /\ preq[r].pc = "redis_lookup"
    /\ \E did \in get_photo_result(preq[r].image_hash) :
          /\ did.warned => warnings < MaxWarnings
          /\ warnings' = IF did.warned THEN warnings + 1 ELSE warnings
          /\ IF did.returned # None
             THEN preq' = [preq EXCEPT
                      ![r].pc = "done",
                      ![r].response = SearchResponse(r, did.returned),
                      ![r].events = @ \cup {"redis_hit"}]
             ELSE preq' = [preq EXCEPT
                      ![r].pc = "db_lookup",
                      ![r].events = @ \cup
                          IF ~did.contacted \/ did.warned
                          THEN {"redis_unavailable"}
                          ELSE IF redis[preq[r].image_hash].value # None
                          THEN {"redis_miss", "redis_expired"}
                          ELSE {"redis_miss"}]
    /\ UNCHANGED <<photo_searches, lifespan, cache_manager, redis, cm_call,
                   textVars, aggVars, rateVars, keyVars>>

\* a lookup that takes the expired rows for the live ones
StalePhotoSearches(h) ==
    {row \in photo_searches : row.image_hash = h /\ row.expires_at < clock}

\* select(PhotoSearch).where(image_hash == ..., expires_at > utcnow())
LivePhotoSearches(h) ==
    {row \in photo_searches : row.image_hash = h /\ row.expires_at > clock}

\* "Check database cache": a live row is answered from its columns; nothing
\* is written to Redis
DbLookupHit(r) ==
    /\ preq[r].pc = "db_lookup"
    /\ \E row \in LivePhotoSearches(preq[r].image_hash) :
          /\ LivePhotoSearches(preq[r].image_hash) = {row}
          /\ preq' = [preq EXCEPT ![r].pc = "done",
                                  ![r].response = SearchResponse(row.id, row.gear),
                                  ![r].events = @ \cup {"db_hit"}]
    /\ UNCHANGED <<photo_searches, cacheVars, textVars, aggVars, rateVars, keyVars>>

\* photo_searches.image_hash is taken to be unique, as searches.search_hash is
PhotoHashTaken(h) == \E row \in photo_searches : row.image_hash = h

\* "Cache miss - starting vision analysis"; the events tell a miss on an
\* expired entry from a miss on none
DbLookupMiss(r) ==
    /\ preq[r].pc = "db_lookup"
    /\ LivePhotoSearches(preq[r].image_hash) = {}
    /\ preq' = [preq EXCEPT ![r].pc = "vision",
                            ![r].events = @ \cup
                                IF PhotoHashTaken(preq[r].image_hash)
                                THEN {"db_miss", "db_expired"}
                                ELSE {"db_miss"}]
    /\ UNCHANGED <<photo_searches, cacheVars, textVars, aggVars, rateVars, keyVars>>

\* the query raises: get_db_session re-raises, "except Exception" answers 500
DbLookupFails(r) ==
    /\ preq[r].pc = "db_lookup"
    /\ preq' = [preq EXCEPT ![r].pc = "done",
                            ![r].response = ServerError,
                            ![r].events = @ \cup {"lookup_failed"}]
    /\ UNCHANGED <<photo_searches, cacheVars, textVars, aggVars, rateVars, keyVars>>

\* identify_gear_from_image returns the parsed dict
VisionAnswers(r) ==
    /\ preq[r].pc = "vision"
    /\ preq' = [preq EXCEPT ![r].pc = "store",
                            ![r].gear_data = Gear(r, "answer")]
    /\ UNCHANGED <<photo_searches, cacheVars, textVars, aggVars, rateVars, keyVars>>

\* identify_gear_from_image raises: ValueError (no API key) is answered
\* 400, anything else 500
VisionRaises(r) ==
    /\ preq[r].pc = "vision"
    /\ \E error \in {BadRequest, ServerError} :
          preq' = [preq EXCEPT ![r].pc = "done",
                               ![r].response = error,
                               ![r].events = @ \cup {"vision_raised"}]
    /\ UNCHANGED <<photo_searches, cacheVars, textVars, aggVars, rateVars, keyVars>>

\* "Store in database": the row is added and committed
PhotoStoreCommits(r) ==
    /\ preq[r].pc = "store"
    /\ ~PhotoHashTaken(preq[r].image_hash)
    /\ photo_searches' = photo_searches \cup
          {[id |-> r, image_hash |-> preq[r].image_hash,
            expires_at |-> clock + photo_cache_days,
            gear |-> preq[r].gear_data]}
    /\ preq' = [preq EXCEPT ![r].pc = "redis_set",
                            ![r].events = @ \cup {"stored"}]
    /\ UNCHANGED <<cacheVars, textVars, aggVars, rateVars, keyVars>>

\* the commit raises: get_db_session re-raises, "except Exception" answers 500
PhotoStoreFails(r) ==
    /\ preq[r].pc = "store"
    /\ preq' = [preq EXCEPT ![r].pc = "done",
                            ![r].gear_data = NoGear,
                            ![r].response = ServerError,
                            ![r].events = @ \cup {"store_failed"}]
    /\ UNCHANGED <<photo_searches, cacheVars, textVars, aggVars, rateVars, keyVars>>

\* "Cache in Redis for fast retrieval", its result ignored, then the response
RedisSet(r) ==
    /\ preq[r].pc = "redis_set"
    /\ \E did \in set_photo_result(preq[r].image_hash, preq[r].gear_data,
                                   photo_cache_days) :
          /\ did.warned => warnings < MaxWarnings
          /\ warnings' = IF did.warned THEN warnings + 1 ELSE warnings
          /\ redis' = [redis EXCEPT ![preq[r].image_hash] = did.entry]
    /\ preq' = [preq EXCEPT ![r].pc = "done",
                            ![r].gear_data = NoGear,
                            ![r].response = SearchResponse(r, preq[r].gear_data)]
    /\ UNCHANGED <<photo_searches, lifespan, cache_manager, cm_call,
                   textVars, aggVars, rateVars, keyVars>>

PhotoNext ==
    \/ ConnectSucceeds
    \/ ConnectFails
    \/ \E r \in Reqs : PhotoReceive(r)
    \/ \E r \in Reqs : PhotoDenied(r)
    \/ \E r \in Reqs : RedisLookup(r)
    \/ \E r \in Reqs : DbLookupHit(r)
    \/ \E r \in Reqs : DbLookupMiss(r)
    \/ \E r \in Reqs : DbLookupFails(r)
    \/ \E r \in Reqs : VisionAnswers(r)
    \/ \E r \in Reqs : VisionRaises(r)
    \/ \E r \in Reqs : PhotoStoreCommits(r)
    \/ \E r \in Reqs : PhotoStoreFails(r)
    \/ \E r \in Reqs : RedisSet(r)
    \/ ClockTick

\* the photo search service, with delete_photo_result called beside it
PhotoCacheNext ==
    \/ PhotoNext
    \/ \E h \in Hashes : DeletePhotoResult(h)

(***************************************************************************)
(* middleware/rate_limiter.py: the PhotoSearchRateLimiter singleton.       *)
(* check_rate_limit has no await: each call is one step.                   *)
(***************************************************************************)
\* request.client.host of the callers
Clients == {"ip1", "ip2"}

\* the instants the model visits: an admission at 0 is seen inside its
\* window, at its end and after it
RatePoints == {0, window_seconds - 1, window_seconds, window_seconds + 1}

\* a pruning that keeps a timestamp exactly window_seconds old
InWindowInclusive(ts, t) == t - ts <= window_seconds

\* "if now - ts < self.window_seconds"
InWindow(ts, t) == t - ts < window_seconds

\* [ts for ts in self.requests[client_ip] if now - ts < self.window_seconds]
Pruned(history, t) == SelectSeq(history, LAMBDA ts : InWindow(ts, t))

\* self.requests[client_ip] = history
WithHistory(c, history) ==
    [d \in DOMAIN requests \cup {c} |-> IF d = c THEN history ELSE requests[d]]

\* a limiter that records the denied attempts too
CheckRateLimitCountingDenials(c) ==
    /\ calls < MaxCalls
    /\ calls' = calls + 1
    /\ LET history == IF c \in DOMAIN requests THEN requests[c] ELSE <<>>
           kept == Pruned(history, unix_time)
       IN  IF Len(kept) >= max_requests
           THEN /\ requests' = WithHistory(c, Append(kept, unix_time))
                /\ denials' = [denials EXCEPT ![c] = @ \cup {unix_time}]
                /\ UNCHANGED admissions
           ELSE /\ requests' = WithHistory(c, Append(kept, unix_time))
                /\ admissions' = [admissions EXCEPT ![c] = Append(@, unix_time)]
                /\ UNCHANGED denials
    /\ UNCHANGED <<unix_time, aggVars, textVars, cacheVars, photoVars, keyVars>>

\* check_rate_limit(client_ip): the key is created if missing, the list is
\* pruned, then the call raises 429 or appends now and returns True
CheckRateLimit(c) ==
    /\ calls < MaxCalls
    /\ calls' = calls + 1
    /\ LET history == IF c \in DOMAIN requests THEN requests[c] ELSE <<>>
           kept == Pruned(history, unix_time)
       IN  IF Len(kept) >= max_requests
           THEN /\ requests' = WithHistory(c, kept)
                /\ denials' = [denials EXCEPT ![c] = @ \cup {unix_time}]
                /\ UNCHANGED admissions
           ELSE /\ requests' = WithHistory(c, Append(kept, unix_time))
                /\ admissions' = [admissions EXCEPT ![c] = Append(@, unix_time)]
                /\ UNCHANGED denials
    /\ UNCHANGED <<unix_time, aggVars, textVars, cacheVars, photoVars, keyVars>>

\* time passes between two calls
TimePasses ==
    /\ \E t \in RatePoints : t > unix_time /\ unix_time' = t
    /\ UNCHANGED <<requests, calls, admissions, denials, aggVars, textVars,
                   cacheVars, photoVars, keyVars>>

RateNext ==
    \/ \E c \in Clients : CheckRateLimit(c)
    \/ TimePasses

(***************************************************************************)
(* api/routes/search.py: generate_search_hash, on the fields a validated   *)
(* SearchRequest can carry.  A str is a sequence of characters.            *)
(***************************************************************************)
\* a lower-case letter, its capital, the separator and a blank
Chars == {"a", "A", ":", " "}

\* artist and song: min_length=1
Strings == UNION {[1..n -> Chars] : n \in 1..MaxStr}

\* year: None, or an int within ge=1900, le=2030
Years == {"None", "1900", "2030"}

Queries == [artist : Strings, song : Strings, year : Years]

NoQuery == [artist |-> <<>>, song |-> <<>>, year |-> "None"]

\* a lower() that leaves capitals alone
SameCase(ch) == ch

\* str.lower(), character by character
LowerChar(ch) == IF ch = "A" THEN "a" ELSE ch

lower(str) == [i \in 1..Len(str) |-> LowerChar(str[i])]

\* f"{year or ''}": the digits of the year as one piece, nothing for None
YearText(year) == IF year = "None" THEN <<>> ELSE <<year>>

\* hashlib.md5(...).hexdigest(), taken to be free of collisions
md5(str) == [tag |-> "md5", of |-> str]

generate_search_hash(artist, song, year) ==
    md5(lower(artist) \o <<":">> \o lower(song) \o <<":">> \o YearText(year))

\* a validated request arrives
ReceiveQuery ==
    /\ query = NoQuery
    /\ query' \in Queries
    /\ UNCHANGED <<search_hash, aggVars, textVars, cacheVars, photoVars, rateVars>>

\* search_hash = generate_search_hash(request.artist, request.song, request.year)
GenerateSearchHash ==
    /\ query # NoQuery
    /\ search_hash = None
    /\ search_hash' = generate_search_hash(query.artist, query.song, query.year)
    /\ UNCHANGED <<query, aggVars, textVars, cacheVars, photoVars, rateVars>>

KeyNext ==
    \/ ReceiveQuery
    \/ GenerateSearchHash

(***************************************************************************)
(* Specifications.                                                         *)
(***************************************************************************)
\* the process after import: nothing registered, nothing running, empty
\* tables, the CacheManager as constructed
Init ==
    /\ scrapers = {}
    /\ sync_search = {}
    /\ now = 0
    /\ agg_pc = "idle"
    /\ task = [s \in ScraperIds |-> "idle"]
    /\ outcome = [s \in ScraperIds |-> Pending]
    /\ search_did = [s \in ScraperIds |-> NoSearch]
    /\ successful_results = <<>>
    /\ loop_blocked = FALSE
    /\ treq = [r \in Reqs |-> IdleRequest]
    /\ searches = {}
    /\ gear_results = {}
    /\ clock = 0
    /\ lifespan = "startup"
    /\ cache_manager = [enabled |-> TRUE, redis_client |-> "None"]
    /\ redis = [h \in Hashes |-> NoEntry]
    /\ warnings = 0
    /\ cm_call = NoCall
    /\ preq = [r \in Reqs |-> IdlePhoto]
    /\ photo_searches = {}
    /\ requests = <<>>
    /\ unix_time = 0
    /\ calls = 0
    /\ admissions = [c \in Clients |-> <<>>]
    /\ denials = [c \in Clients |-> {}]
    /\ query = NoQuery
    /\ search_hash = None

\* one aggregate call, step by step
AggSpec == Init /\ [][AggNext]_vars

\* The event loop runs every ready task and fires every due timer; nothing
\* obliges a search() that awaits the network to ever return.
FairAggSpec ==
    /\ AggSpec
    /\ WF_vars(AggregateStart)
    /\ WF_vars(Tick)
    /\ \A s \in ScraperIds : WF_vars(Timeout(s))
    /\ \A s \in ScraperIds :
          WF_vars(SyncSearchReturns(s) \/ SyncSearchRaises(s) \/ SyncSearchHangs(s))
    /\ WF_vars(GatherDone)

\* the text search service
Spec == Init /\ [][TextNext]_vars

\* the CacheManager under any sequence of calls
CacheSpec == Init /\ [][CacheNext]_vars

\* the photo search service
PhotoSpec == Init /\ [][PhotoNext]_vars

\* generate_search_hash on every request of the bounded alphabet
KeySpec == Init /\ [][KeyNext]_vars

\* the rate limiter under any sequence of calls
RateSpec == Init /\ [][RateNext]_vars

\* the same, with time that does not stop; no client is bound to call again
FairRateSpec == RateSpec /\ WF_vars(TimePasses)

\* the photo search service and the invalidation of its entries
PhotoCacheSpec == Init /\ [][PhotoCacheNext]_vars

(***************************************************************************)
(* Claims about the aggregator and the timeout guard.                      *)
(***************************************************************************)
Range(seq) == {seq[i] : i \in 1..Len(seq)}

\* the scrapers whose search() returned a success outcome before the deadline
SucceededInTime ==
    {s \in scrapers : /\ search_did[s].kind = "returned"
                      /\ search_did[s].value.success
                      /\ search_did[s].at < timeout}

\* C1: when aggregate has returned, its result holds exactly the outcomes of
\* the scrapers whose search returned a success outcome before its deadline,
\* each once, and nothing of a failing, raising or timed-out scraper.
C1_ExactlyTheSucceeded ==
    agg_pc = "returned" =>
        /\ Range(successful_results) = {search_did[s].value : s \in SucceededInTime}
        /\ Len(successful_results) = Cardinality(SucceededInTime)

\* C2: an aggregation that has started eventually returns, whatever one
\* scraper's search does, never returning included.
C2_AggregateReturns == (agg_pc = "gathering") ~> (agg_pc = "returned")

IsFailureOutcome(s) ==
    /\ IsScraperResult(outcome[s])
    /\ outcome[s].source_name = source_name(s)
    /\ ~outcome[s].success
    /\ outcome[s].data = "{}"
    /\ outcome[s].confidence = 0
    /\ outcome[s].error # "None"

C5_EmptyEvidence ==
    \A r \in Reqs :
        /\ "aggregate_raised" \notin treq[r].events
        /\ treq[r].locals.searches_were \in {"none_registered", "all_failed"} =>
              /\ treq[r].locals.scraper_results = <<>>
              /\ treq[r].pc \in {"synthesize", "store"}
              /\ treq[r].pc = "store" => treq[r].locals.synth_sources = 0

C5_Witness ==
    \E r, q \in Reqs :
        /\ treq[r].locals.searches_were = "none_registered"
        /\ treq[r].pc = "store" /\ treq[r].locals.synth_sources = 0
        /\ treq[q].locals.searches_were = "all_failed"
        /\ treq[q].pc = "store" /\ treq[q].locals.synth_sources = 0

\* C8: a request whose database write failed after the synthesis still
\* answers 200 with the computed result.
C8_WriteFailureHidden ==
    \A r \in Reqs :
        "store_failed" \in treq[r].events => treq[r].response.status = 200

(***************************************************************************)
(* Claims about the photo search endpoint and its two cache tiers.         *)
(***************************************************************************)
\* C6: once a lookup has missed Redis and been answered from a live database
\* row, and no request is about to write the key, Redis holds the entry.
C6_Backfill ==
    \A r \in Reqs :
        /\ {"redis_miss", "db_hit"} \subseteq preq[r].events
        /\ \A q \in Reqs : preq[q].pc # "redis_set"
        => redis[preq[r].image_hash].value # None

C9_CacheAdvisory ==
    \A r \in Reqs :
        {"redis_unavailable", "lookup_failed"} \subseteq preq[r].events
            => preq[r].response.status = 200

\* C10: after a failed connect the manager is disabled for good, the one
\* warning logged is connect's, and a get returns None, a set or a delete
\* returns False, each without a command sent to Redis and without a log line.
C10_DisabledNoOp ==
    /\ lifespan = "serving" /\ cm_call.op = "connect" =>
          (cm_call.warned <=> ~cache_manager.enabled)
    /\ ~cache_manager.enabled =>
          /\ warnings = 1
          /\ cm_call.op \in {"get", "set", "delete"} =>
                ~cm_call.contacted /\ ~cm_call.warned
          /\ cm_call.op = "get" => cm_call.returned = None
          /\ cm_call.op \in {"set", "delete"} => cm_call.returned = FALSE

\* connect failed at ping (the client object exists) and a set was called
C10_Witness ==
    /\ ~cache_manager.enabled
    /\ cache_manager.redis_client = "client"
    /\ cm_call.op = "set"

\* C11: a call of delete_photo_result on a key leaves no entry for the key
\* in Redis and no row for it in photo_searches, and returns True exactly
\* when one of the two held the key before.
C11_InvalidateBothTiers ==
    [][\A h \in Hashes :
          DeletePhotoResult(h) =>
              /\ redis'[h] = NoEntry
              /\ \A row \in photo_searches' : row.image_hash # h
              /\ cm_call'.returned <=>
                    (redis[h].value # None \/ PhotoHashTaken(h))
      ]_vars

\* C12: the Redis entry of a key and the photo_searches row of the same key
\* carry the same expires_at.
C12_SameExpiry ==
    \A h \in Hashes : \A row \in photo_searches :
        (row.image_hash = h /\ redis[h].value # None)
            => redis[h].expires_at = row.expires_at

(***************************************************************************)
(* Claims about the rate limiter.                                          *)
(***************************************************************************)
\* how many admissions of c are less than window_seconds older than t
RecentAdmissions(c, t) ==
    Cardinality({i \in DOMAIN admissions[c] : t - admissions[c][i] < window_seconds})

\* C13: a check_rate_limit call of a client is admitted exactly when fewer
\* than max_requests of the client's admissions are less than window_seconds
\* old, and is denied (429) otherwise.
C13_SlidingWindow ==
    [][\A c \in Clients :
          CheckRateLimit(c) =>
              IF RecentAdmissions(c, unix_time) < max_requests
              THEN /\ admissions'[c] = Append(admissions[c], unix_time)
                   /\ denials'[c] = denials[c]
              ELSE /\ admissions'[c] = admissions[c]
                   /\ unix_time \in denials'[c]
      ]_vars

\* ten calls at one instant were admitted, the eleventh was denied, and a
\* call more than window_seconds later was admitted again
C13_Witness ==
    \E c \in Clients :
        /\ Len(admissions[c]) = max_requests + 1
        /\ \A i \in 1..max_requests : admissions[c][i] = 0
        /\ 0 \in denials[c]
        /\ admissions[c][max_requests + 1] > window_seconds


\* two characters that are the same letter, whatever their case
SameLetter(x, y) == x = y \/ {x, y} = {"a", "A"}

\* the strings that differ from str in letter case only
CaseVariants(str) ==
    {t \in [1..Len(str) -> Chars] : \A i \in 1..Len(str) : SameLetter(t[i], str[i])}

\* C14: the key of a text query is the same for every spelling of the artist
\* and the song that differs in letter case only, with the same year; the
\* key is a function of the three fields alone.
C14_CaseInsensitive ==
    search_hash # None =>
        \A artist \in CaseVariants(query.artist) :
            \A song \in CaseVariants(query.song) :
                generate_search_hash(artist, song, query.year) = search_hash

\* a hashed query that has capitals, so that it has other spellings
C14_Witness ==
    /\ search_hash # None
    /\ \E i \in DOMAIN query.artist : query.artist[i] = "A"
    /\ \E i \in DOMAIN query.song : query.song[i] = "A"
    /\ query.year # "None"

RECURSIVE StripLeft(_)
StripLeft(str) ==
    IF str # <<>> /\ Head(str) = " " THEN StripLeft(Tail(str)) ELSE str

RECURSIVE StripRight(_)
StripRight(str) ==
    IF str # <<>> /\ str[Len(str)] = " "
    THEN StripRight(SubSeq(str, 1, Len(str) - 1))
    ELSE str

\* the string without its leading and trailing blanks
Strip(str) == StripRight(StripLeft(str))

\* C15: the key of a text query ignores the leading and trailing blanks of
\* the artist and of the song: it is the key of the trimmed fields.
C15_TrimsWhitespace ==
    (search_hash # None /\ Strip(query.artist) # <<>> /\ Strip(query.song) # <<>>) =>
        search_hash = generate_search_hash(Strip(query.artist), Strip(query.song),
                                           query.year)

\* the normalized tuple of a query: lower case, trimmed
Normalized(q) ==
    [artist |-> Strip(lower(q.artist)), song |-> Strip(lower(q.song)), year |-> q.year]

\* C16: two queries whose normalized (artist, song, year) tuples differ never
\* get the same key.
C16_Injective ==
    search_hash # None =>
        \A q \in Queries :
            Normalized(q) # Normalized(query) =>
                generate_search_hash(q.artist, q.song, q.year) # search_hash

\* the stored, unexpired answers of an image
StoredAnswers(h) ==
    {row \in photo_searches : row.image_hash = h /\ clock < row.expires_at}

ExpiredEntry(h) ==
    \E row \in searches : row.search_hash = h /\ row.expires_at <= clock

\* C18: a text request that has recomputed the answer of a query whose
\* stored entry has expired finishes its store step with a live entry under
\* the key, the expired one gone, and answers 200.
C18_ExpiredEntryReplaced ==
    [][\A r \in Reqs :
          (/\ treq[r].pc = "store"
           /\ treq'[r].pc = "done"
           /\ ExpiredEntry(treq[r].search_hash)) =>
              /\ treq'[r].response.status = 200
              /\ \E row \in searches' :
                    /\ row.search_hash = treq[r].search_hash
                    /\ row.expires_at > clock'
              /\ \A row \in searches' :
                    row.search_hash = treq[r].search_hash => row.expires_at > clock'
      ]_vars

\* C19: a request, text or photo, that has reached the aggregation, the
\* synthesis or the vision analysis was admitted by the rate limiter first.
C19_LimiterFirst ==
    /\ \A r \in Reqs :
          (\/ treq[r].pc \in {"aggregate", "synthesize"}
           \/ treq[r].events \cap {"aggregated", "synthesized"} # {})
              => "admitted" \in treq[r].events
    /\ \A r \in Reqs :
          (\/ preq[r].pc = "vision"
           \/ preq[r].events \cap {"vision_raised", "stored", "store_failed"} # {})
              => "admitted" \in preq[r].events

\* the client has an entry whose timestamps have all left the window
WindowRunOut(c) ==
    c \in DOMAIN requests /\ Pruned(requests[c], unix_time) = <<>>

\* C20: an entry of the limiter's map whose window has run out is eventually
\* removed from the map, unless its client calls again first.
C20_EntryCollected ==
    \A c \in Clients :
        WindowRunOut(c) ~> (c \notin DOMAIN requests \/ ~WindowRunOut(c))


\* C22: a text request at its lookup, with no usable entry committed for its
\* key, can go on to the aggregation whatever the other requests are doing:
\* a request already computing the same key does not hold it back.
C22_NoSingleFlight ==
    \A r \in Reqs :
        (/\ ~loop_blocked
         /\ treq[r].pc = "lookup"
         /\ \A row \in searches :
               (row.search_hash = treq[r].search_hash /\ row.expires_at > clock)
                   => \A g \in gear_results : g.search_id # row.id)
            => ENABLED LookupMiss(r)

\* two requests for one key have both missed and both synthesized, neither
\* having stored yet
C22_Witness ==
    \E r \in Reqs : \E q \in Reqs \ {r} :
        /\ treq[r].search_hash = treq[q].search_hash
        /\ treq[r].pc = "store" /\ treq[q].pc = "store"
        /\ {"cache_miss", "synthesized"} \subseteq treq[r].events
        /\ {"cache_miss", "synthesized"} \subseteq treq[q].events
        /\ treq[r].locals.gear_data # treq[q].locals.gear_data

\* scraper s settles in this step, and not with a success
SettlesFailed(s) ==
    /\ task[s] = "running"
    /\ task'[s] = "settled"
    /\ ~(IsScraperResult(outcome'[s]) /\ outcome'[s].success)

\* C23: aggregate starts the guarded searches of all registered scrapers
\* together and returns only when all have settled; the step in which one
\* scraper fails or times out leaves every other scraper that is running
\* and within its deadline running and within its deadline.
C23_NoInterference ==
    [][/\ (agg_pc = "idle" /\ agg_pc' = "gathering") =>
              \A s \in scrapers' : task'[s] = "running"
       /\ agg_pc' = "returned" => \A s \in scrapers : task[s] = "settled"
       /\ \A s \in scrapers : \A u \in scrapers \ {s} :
              (SettlesFailed(s) /\ task[u] = "running" /\ now < timeout) =>
                  /\ task'[u] = "running"
                  /\ outcome'[u] = outcome[u]
                  /\ now' < timeout
      ]_vars

\* C24: every ScraperResult a guarded search has settled to is well formed:
\* a success carries data and no error, a failure carries empty data and
\* confidence 0.
C24_OutcomeWellFormed ==
    \A s \in ScraperIds :
        IsScraperResult(outcome[s]) =>
            IF outcome[s].success
            THEN outcome[s].data # "{}" /\ outcome[s].error = "None"
            ELSE outcome[s].data = "{}" /\ outcome[s].confidence = 0

\* the list the limiter holds for a client, empty when it holds none
Window(reqs, c) == IF c \in DOMAIN reqs THEN reqs[c] ELSE <<>>

\* the timestamps of a list that are less than a window old
StillCounted(history, t) ==
    SelectSeq(history, LAMBDA ts : t - ts < window_seconds)

\* C25: a call that denies leaves the client's list as it was but for the
\* pruning, with no timestamp added; a call that admits adds the current
\* time once, at the end of the pruned list; no call touches another
\* client's list.
C25_DenialRecordsNothing ==
    [][\A c \in Clients :
          CheckRateLimit(c) =>
              /\ IF admissions'[c] = admissions[c]
                 THEN /\ unix_time \in denials'[c]
                      /\ Window(requests', c) =
                             StillCounted(Window(requests, c), unix_time)
                 ELSE Window(requests', c) =
                          Append(StillCounted(Window(requests, c), unix_time),
                                 unix_time)
              /\ \A d \in Clients \ {c} : Window(requests', d) = Window(requests, d)
      ]_vars

\* a client was denied twice, at two instants, and its list still holds the
\* ten admissions and nothing else
C25_Witness ==
    \E c \in Clients :
        /\ c \in DOMAIN requests
        /\ requests[c] = [i \in 1..max_requests |-> 0]
        /\ {0, window_seconds - 1} \subseteq denials[c]

\* the client's list is full and every admission in it is exactly one
\* window old
FullAtTheBoundary(c) ==
    /\ c \in DOMAIN requests
    /\ Len(requests[c]) = max_requests
    /\ \A i \in DOMAIN requests[c] : unix_time - requests[c][i] = window_seconds

\* C26 (as amended): a call drops every timestamp that is a full window old
\* or older, so a client whose ten admissions are all exactly one window old
\* is admitted, and its list then holds the new timestamp alone.
C26_BoundaryPruned ==
    [][\A c \in Clients :
          CheckRateLimit(c) =>
              /\ \A i \in DOMAIN requests'[c] :
                    unix_time - requests'[c][i] # window_seconds
              /\ FullAtTheBoundary(c) =>
                    /\ admissions'[c] = Append(admissions[c], unix_time)
                    /\ denials'[c] = denials[c]
                    /\ requests'[c] = <<unix_time>>
      ]_vars

\* ten admissions at 0, then one at exactly window_seconds
C26_Witness ==
    \E c \in Clients :
        /\ c \in DOMAIN requests
        /\ requests[c] = <<window_seconds>>
        /\ admissions[c] = [i \in 1..max_requests + 1 |->
                               IF i <= max_requests THEN 0 ELSE window_seconds]

\* C26 as stated: a client whose ten admissions are all exactly one window
\* old is denied.
C26_AsStated ==
    [][\A c \in Clients :
          (CheckRateLimit(c) /\ FullAtTheBoundary(c)) =>
              /\ admissions'[c] = admissions[c]
              /\ unix_time \in denials'[c]
      ]_vars

\* C27: a search that is still going when its deadline elapses is cancelled
\* there and delivers nothing, and when aggregate has returned none of its
\* searches is running.
C27_NoAbandonedWork ==
    /\ agg_pc = "returned" => \A s \in scrapers : task[s] = "settled"
    /\ \A s \in scrapers :
          (task[s] = "settled" /\ search_did[s].at >= timeout) =>
              /\ search_did[s].kind = "timeout"
              /\ search_did[s].value = Pending

\* what a photo request leaves behind once it is past the rate limiter
PastTheLimiter ==
    {"redis_hit", "redis_miss", "redis_unavailable", "redis_expired", "db_hit",
     "db_miss", "db_expired", "lookup_failed", "vision_raised", "stored",
     "store_failed"}

\* C28: a photo request the rate limiter denied is answered 429 and has done
\* nothing else: no hash, no lookup, no vision call, no row and no Redis
\* entry of its own; and every request that got as far as the Redis lookup
\* was admitted first.
C28_DeniedDoesNothing ==
    \A r \in Reqs :
        /\ "denied" \in preq[r].events =>
              /\ preq[r].pc = "done"
              /\ preq[r].response = TooManyRequests
              /\ preq[r].events = {"denied"}
              /\ preq[r].image_hash = "none"
              /\ preq[r].gear_data = NoGear
              /\ \A row \in photo_searches : row.id # r
              /\ \A h \in Hashes : redis[h].value # json_dumps(Gear(r, "answer"))
        /\ (\/ preq[r].pc \in {"redis_lookup", "db_lookup", "vision", "store",
                               "redis_set"}
            \/ preq[r].events \cap PastTheLimiter # {})
              => "admitted" \in preq[r].events

\* one request was denied, another was admitted and went all the way to
\* its Redis write
C28_Witness ==
    \E r \in Reqs : \E q \in Reqs \ {r} :
        /\ preq[r].pc = "done" /\ preq[r].response.status = 429
        /\ preq[q].pc = "done" /\ {"admitted", "stored"} \subseteq preq[q].events
        /\ redis[preq[q].image_hash].value = json_dumps(Gear(q, "answer"))

\* the live rows of a key whose stored answer is the degraded one
DegradedEntries(h) ==
    {row \in searches :
        /\ row.search_hash = h
        /\ clock < row.expires_at
        /\ \E g \in gear_results : g.search_id = row.id /\ g.gear.kind = "degraded"}

C30_AtomicStore ==
    /\ \A row \in searches : \E g \in gear_results : g.search_id = row.id
    /\ \A g \in gear_results : \E row \in searches : row.id = g.search_id
    /\ \A r \in Reqs :
          "store_failed" \in treq[r].events =>
              /\ \A row \in searches : row.id # r
              /\ \A g \in gear_results : g.search_id # r

\* one request has committed its two rows, another one's store has failed
C30_Witness ==
    \E r \in Reqs : \E q \in Reqs \ {r} :
        /\ "stored" \in treq[r].events
        /\ \E row \in searches : row.id = r
        /\ \E g \in gear_results : g.search_id = r
        /\ "store_failed" \in treq[q].events
        /\ treq[q].pc = "done"
====
